---- MODULE Spec2Model ----
(***************************************************************************)
(* Model of run_export.py: one run of main(), which parses the command     *)
(* line, queries the source warehouse, uploads the result as CSV to an     *)
(* object path stamped with the start time, and reloads the object into    *)
(* the destination table.                                                  *)
(*                                                                         *)
(* Text is a sequence of tokens: an f-string is the concatenation of its   *)
(* literal pieces and of the values it interpolates.  The command lines    *)
(* modelled give any subset of the six flags parse_arguments declares.     *)
(***************************************************************************)
EXTENDS Integers, Sequences, FiniteSets, TLC

VARIABLES
    argv,             \* the command line: a function from the flags given to their values
    pc,               \* position of main()
    clock,            \* wall clock, in seconds
    args,             \* the Namespace parse_arguments returned
    OUTPUT_FILENAME,  \* object path, line 67
    QUERY,            \* SQL text, lines 71-83
    df,               \* number of rows of the DataFrame, line 94; NoFrame before
    csv_data,         \* CSV text, one token per line, line 104
    load_query,       \* LOAD DATA statement, line 133
    log,              \* records the logger emitted
    stderr,           \* what argparse wrote to standard error
    queryCalls,       \* SQL texts sent to bq_client.query, line 94
    uploadCalls,      \* (bucket, key) of each blob.upload_from_string, line 120
    loadCalls,        \* statements sent to bq_destination_client.query, line 146
    resultCalls,      \* number of res.result() waits, line 149
    raised,           \* the exception each failed stage raised, in order
    bucketObjects,    \* keys present in the bucket
    destTable,        \* object the destination table was last loaded from
    exitCode          \* process exit status, NoExit while running

vars == <<argv, pc, clock, args, OUTPUT_FILENAME, QUERY, df, csv_data, load_query,
          log, stderr, queryCalls, uploadCalls, loadCalls, resultCalls, raised,
          bucketObjects, destTable, exitCode>>

\* ---------------------------------------------------------------- bounds
MaxClock == 2
MaxRows == 2

\* ------------------------------------------------------------- constants
NoExit == -1
NoFrame == -1
ArgparseErrorExit == 2
None == <<"None">>
Original == <<"<original contents>">>
NoArgs == [parsed |-> FALSE]

\* -------------------------------------------------------- command line
RequiredFlags == {"source_project_id", "destination_project_id", "bucket_name", "dataset_name"}
OptionalFlags == {"output_file_type", "query_filter"}
Flags == RequiredFlags \cup OptionalFlags

Default(f) ==
    CASE f = "output_file_type" -> <<"export">>
      [] f = "query_filter" -> <<>>
      [] OTHER -> None

FlagValues(f) ==
    CASE f = "source_project_id" -> {<<>>, <<"src">>}
      [] f = "destination_project_id" -> {<<>>, <<"dst">>}
      [] f = "bucket_name" -> {<<>>, <<"bkt">>}
      [] f = "dataset_name" -> {<<>>, <<"sales">>}
      [] f = "output_file_type" -> {<<"orders">>}
      [] f = "query_filter" -> {<<>>, <<"region='US'">>, <<"id IN (SELECT id FROM t ", "WHERE ", "ok)">>}

CommandLines ==
    UNION { {a \in [S -> UNION {FlagValues(f) : f \in S}] : \A f \in S : a[f] \in FlagValues(f)}
            : S \in SUBSET Flags }

\* MissingRequired with --bucket-name declared without required=True
MissingRequiredBucketOptional(a) ==
    {f \in RequiredFlags \ {"bucket_name"} : f \notin DOMAIN a}

\* argparse: the required flags the command line does not give
MissingRequired(a) == {f \in RequiredFlags : f \notin DOMAIN a}

\* argparse: the Namespace of a command line that gives every required flag
Namespace(a) ==
    [f \in Flags |-> IF f \in DOMAIN a THEN a[f] ELSE Default(f)] @@ [parsed |-> TRUE]

\* ---------------------------------------------------------------- logging
LevelNo(level) ==
    CASE level = "DEBUG" -> 10
      [] level = "INFO" -> 20
      [] level = "WARNING" -> 30
      [] level = "ERROR" -> 40

LoggerLevel == 20

Rec(level, msg, exc) == [level |-> level, msg |-> msg, exc_info |-> exc]
Debug(msg) == Rec("DEBUG", msg, FALSE)
Info(msg) == Rec("INFO", msg, FALSE)
Warning(msg) == Rec("WARNING", msg, FALSE)
Error(msg) == Rec("ERROR", msg, FALSE)
Exception(msg) == Rec("ERROR", msg, TRUE)

\* the records of recs that pass the logger's level
IsEnabledFor(r) == LevelNo(r.level) >= LoggerLevel
Emit(recs) == log \o SelectSeq(recs, IsEnabledFor)

\* ------------------------------------------------------------------ text
Strftime(t) == <<"20240101_00000" , ToString(t)>>

OutputFilename(dataset, type, now) ==
    dataset \o <<"/">> \o type \o <<"/">> \o type \o <<"_">> \o Strftime(now) \o <<".csv">>

\* the backquote character, which a TLA+ string cannot hold
Backquote == "<backquote>"

TableRef(project, dataset, type) ==
    <<Backquote>> \o project \o <<".">> \o dataset \o <<".">> \o type \o <<Backquote>>

Indent == "\n            "

\* BuildQuery testing the filter against None instead of the empty string
BuildQueryAlwaysWhere(project, dataset, type, filter) ==
    IF filter # None
    THEN <<Indent, "SELECT *", Indent, "FROM ">> \o TableRef(project, dataset, type)
         \o <<Indent, "WHERE ">> \o filter \o <<Indent>>
    ELSE <<Indent, "SELECT *", Indent, "FROM ">> \o TableRef(project, dataset, type)
         \o <<Indent>>

BuildQuery(project, dataset, type, filter) ==
    IF filter # <<>>
    THEN <<Indent, "SELECT *", Indent, "FROM ">> \o TableRef(project, dataset, type)
         \o <<Indent, "WHERE ">> \o filter \o <<Indent>>
    ELSE <<Indent, "SELECT *", Indent, "FROM ">> \o TableRef(project, dataset, type)
         \o <<Indent>>

GsUri(bucket, key) == <<"gs://">> \o bucket \o <<"/">> \o key

ToCsv(rows) == <<"header">> \o [i \in 1..rows |-> "row"]

\* ------------------------------------------------------------ Init
Init ==
    /\ argv \in CommandLines
    /\ pc = "start"
    /\ clock = 0
    /\ args = NoArgs
    /\ OUTPUT_FILENAME = <<>>
    /\ QUERY = <<>>
    /\ df = NoFrame
    /\ csv_data = <<>>
    /\ load_query = <<>>
    /\ log = <<>>
    /\ stderr = <<>>
    /\ queryCalls = <<>>
    /\ uploadCalls = <<>>
    /\ loadCalls = <<>>
    /\ resultCalls = 0
    /\ raised = <<>>
    /\ bucketObjects = {}
    /\ destTable = Original
    /\ exitCode = NoExit

\* ------------------------------------------------------------ actions
\* line 46
Start ==
    /\ pc = "start"
    /\ log' = Emit(<<Info(<<"Starting BigQuery to GCS export script">>)>>)
    /\ pc' = "parse"
    /\ UNCHANGED <<argv, clock, args, OUTPUT_FILENAME, QUERY, df, csv_data, load_query,
                   stderr, queryCalls, uploadCalls, loadCalls, resultCalls, raised,
                   bucketObjects, destTable, exitCode>>

\* lines 50-51 and 26-43: argparse ends the process with status 2 on a
\* missing required flag; SystemExit is not an Exception, so line 161 does
\* not catch it.
ParseArguments ==
    /\ pc = "parse"
    /\ IF MissingRequired(argv) # {}
       THEN /\ stderr' = stderr \o <<"usage", "error: the following arguments are required">>
            /\ exitCode' = ArgparseErrorExit
            /\ pc' = "exited"
            /\ UNCHANGED <<args, log>>
       ELSE /\ args' = Namespace(argv)
            /\ log' = Emit(<<Info(<<"Command line arguments parsed successfully">>)>>)
            /\ pc' = "configure"
            /\ UNCHANGED <<stderr, exitCode>>
    /\ UNCHANGED <<argv, clock, OUTPUT_FILENAME, QUERY, df, csv_data, load_query,
                   queryCalls, uploadCalls, loadCalls, resultCalls, raised,
                   bucketObjects, destTable>>

\* lines 53-83
Configure ==
    /\ pc = "configure"
    /\ OUTPUT_FILENAME' = OutputFilename(args.dataset_name, args.output_file_type, clock)
    /\ QUERY' = BuildQuery(args.source_project_id, args.dataset_name,
                           args.output_file_type, args.query_filter)
    /\ log' = Emit(<<Info(<<"Configuration - Source Project: ">> \o args.source_project_id
                          \o <<", Destination Project: ">> \o args.destination_project_id
                          \o <<", Bucket: ">> \o args.bucket_name
                          \o <<", Dataset: ">> \o args.dataset_name
                          \o <<", Output Type: ">> \o args.output_file_type),
                     Info(<<"Generated output filename: ">> \o OUTPUT_FILENAME'),
                     IF args.query_filter # <<>>
                     THEN Info(<<"Using query with filter: ">> \o args.query_filter)
                     ELSE Info(<<"Using query without filter">>)>>)
    /\ pc' = "bq_client"
    /\ UNCHANGED <<argv, clock, args, df, csv_data, load_query, stderr,
                   queryCalls, uploadCalls, loadCalls, resultCalls, raised,
                   bucketObjects, destTable, exitCode>>

\* ExceptHandler starting the export over instead of exiting
ExceptHandlerRetries(recs, e) ==
    [log |-> Emit(recs \o <<Error(<<"Script failed with error: ", e>>),
                            Exception(<<"Full exception traceback:">>)>>),
     exitCode |-> NoExit,
     pc |-> "bq_client"]

\* lines 161-164: the handler of main()'s try block
ExceptHandler(recs, e) ==
    [log |-> Emit(recs \o <<Error(<<"Script failed with error: ", e>>),
                            Exception(<<"Full exception traceback:">>)>>),
     exitCode |-> 1,
     pc |-> "exited"]

\* LoadExceptHandler without its sys.exit(1)
LoadExceptHandlerNoExit(recs, e) ==
    [log |-> Emit(recs \o <<Error(<<"CRITICAL: Final load query failed: ", e>>),
                            Error(<<"Script execution failed due to final query failure">>)>>),
     exitCode |-> NoExit,
     pc |-> "finish"]

\* LoadExceptHandler submitting the load job again
LoadExceptHandlerResubmits(recs, e) ==
    [log |-> Emit(recs \o <<Error(<<"CRITICAL: Final load query failed: ", e>>)>>),
     exitCode |-> NoExit,
     pc |-> "submit_load"]

\* lines 154-157: the handler of the load job's try block; sys.exit raises
\* SystemExit, which line 161 does not catch
LoadExceptHandler(recs, e) ==
    [log |-> Emit(recs \o <<Error(<<"CRITICAL: Final load query failed: ", e>>),
                            Error(<<"Script execution failed due to final query failure">>)>>),
     exitCode |-> 1,
     pc |-> "exited"]

\* a stage raised e: handler h ends the run
Raise(stage, e, h) ==
    /\ raised' = Append(raised, [stage |-> stage, exc |-> e])
    /\ log' = h.log
    /\ exitCode' = h.exitCode
    /\ pc' = h.pc

\* a stage went through: recs are logged and main() moves on to next
Proceed(recs, next) ==
    /\ log' = Emit(recs)
    /\ pc' = next
    /\ UNCHANGED <<raised, exitCode>>

\* lines 85-88
InitBigQueryClient ==
    /\ pc = "bq_client"
    /\ LET recs == <<Info(<<"Initializing BigQuery client for source project">>)>>
       IN \/ Proceed(recs \o <<Info(<<"BigQuery client initialized successfully">>)>>, "query")
          \/ Raise("query", "DefaultCredentialsError", ExceptHandler(recs, "DefaultCredentialsError"))
    /\ UNCHANGED <<argv, clock, args, OUTPUT_FILENAME, QUERY, df, csv_data, load_query,
                   stderr, queryCalls, uploadCalls, loadCalls, resultCalls,
                   bucketObjects, destTable>>

\* lines 95-98: what is logged about a result of n rows
QueryLogs(n) ==
    <<Info(<<"Query executed successfully - returned ", ToString(n), " rows">>)>>
    \o (IF n = 0
        THEN <<Warning(<<"Query returned 0 rows - proceeding with empty dataset">>)>>
        ELSE <<>>)

\* ExecuteQuery treating an empty result as an error
ExecuteQueryZeroRowsFatal ==
    /\ pc = "query"
    /\ queryCalls' = Append(queryCalls, QUERY)
    /\ LET recs == <<Info(<<"Executing BigQuery query...">>), Debug(<<"Query: ">> \o QUERY)>>
       IN \/ \E n \in 0..MaxRows :
                /\ df' = n
                /\ IF n = 0
                   THEN Raise("query", "EmptyResult", ExceptHandler(recs, "EmptyResult"))
                   ELSE Proceed(recs \o QueryLogs(n), "to_csv")
          \/ /\ Raise("query", "QueryError", ExceptHandler(recs, "QueryError"))
             /\ UNCHANGED df
    /\ UNCHANGED <<argv, clock, args, OUTPUT_FILENAME, QUERY, csv_data, load_query,
                   stderr, uploadCalls, loadCalls, resultCalls,
                   bucketObjects, destTable>>

\* lines 90-98
ExecuteQuery ==
    /\ pc = "query"
    /\ queryCalls' = Append(queryCalls, QUERY)
    /\ LET recs == <<Info(<<"Executing BigQuery query...">>), Debug(<<"Query: ">> \o QUERY)>>
       IN \/ \E n \in 0..MaxRows :
                /\ df' = n
                /\ Proceed(recs \o QueryLogs(n), "to_csv")
          \/ /\ Raise("query", "QueryError", ExceptHandler(recs, "QueryError"))
             /\ UNCHANGED df
    /\ UNCHANGED <<argv, clock, args, OUTPUT_FILENAME, QUERY, csv_data, load_query,
                   stderr, uploadCalls, loadCalls, resultCalls,
                   bucketObjects, destTable>>

\* lines 100-105
ConvertToCsv ==
    /\ pc = "to_csv"
    /\ csv_data' = ToCsv(df)
    /\ Proceed(<<Info(<<"Converting DataFrame to CSV format">>),
                 Info(<<"CSV conversion completed - data size: ",
                        ToString(Len(csv_data')), " characters">>)>>, "storage_client")
    /\ UNCHANGED <<argv, clock, args, OUTPUT_FILENAME, QUERY, df, load_query,
                   stderr, queryCalls, uploadCalls, loadCalls, resultCalls,
                   bucketObjects, destTable>>

\* lines 107-110
InitStorageClient ==
    /\ pc = "storage_client"
    /\ LET recs == <<Info(<<"Initializing Cloud Storage client for destination project">>)>>
       IN \/ Proceed(recs \o <<Info(<<"Cloud Storage client initialized successfully">>)>>, "upload")
          \/ Raise("upload", "DefaultCredentialsError", ExceptHandler(recs, "DefaultCredentialsError"))
    /\ UNCHANGED <<argv, clock, args, OUTPUT_FILENAME, QUERY, df, csv_data, load_query,
                   stderr, queryCalls, uploadCalls, loadCalls, resultCalls,
                   bucketObjects, destTable>>

\* lines 112-122: a failed upload leaves the object absent or fully written
Upload ==
    /\ pc = "upload"
    /\ uploadCalls' = Append(uploadCalls, [bucket |-> args.bucket_name, key |-> OUTPUT_FILENAME,
                                           data |-> csv_data])
    /\ LET recs == <<Info(<<"Accessing bucket: ">> \o args.bucket_name),
                     Info(<<"Uploading CSV to ">> \o GsUri(args.bucket_name, OUTPUT_FILENAME)
                          \o <<"...">>)>>
       IN \/ /\ bucketObjects' = bucketObjects \cup {OUTPUT_FILENAME}
             /\ Proceed(recs \o <<Info(<<"CSV upload to GCS completed successfully!">>),
                                  Info(<<"File available at: ">>
                                       \o GsUri(args.bucket_name, OUTPUT_FILENAME))>>,
                        "prepare_load")
          \/ /\ bucketObjects' \in {bucketObjects, bucketObjects \cup {OUTPUT_FILENAME}}
             /\ Raise("upload", "UploadError", ExceptHandler(recs, "UploadError"))
    /\ UNCHANGED <<argv, clock, args, OUTPUT_FILENAME, QUERY, df, csv_data, load_query,
                   stderr, queryCalls, loadCalls, resultCalls, destTable>>

\* LoadQuery naming the object by a fresh reading of the clock
LoadQueryRederivesPath(project, dataset, type, bucket, filename) ==
    <<Indent, "LOAD DATA OVERWRITE ">> \o TableRef(project, dataset, type)
    \o <<Indent, "FROM FILES (", Indent, "format = 'CSV',", Indent, "uris = ['">>
    \o GsUri(bucket, OutputFilename(dataset, type, clock)) \o <<"']", Indent, ");", Indent>>

\* lines 133-139
LoadQuery(project, dataset, type, bucket, filename) ==
    <<Indent, "LOAD DATA OVERWRITE ">> \o TableRef(project, dataset, type)
    \o <<Indent, "FROM FILES (", Indent, "format = 'CSV',", Indent, "uris = ['">>
    \o GsUri(bucket, filename) \o <<"']", Indent, ");", Indent>>

\* lines 124-142: the destination client is built outside the load job's try
PrepareLoad ==
    /\ pc = "prepare_load"
    /\ LET recs == <<Info(<<"Preparing final load query to destination BigQuery table">>),
                     Debug(<<"Job config location set to: ", "us-central1">>)>>
           stmt == LoadQuery(args.destination_project_id, args.dataset_name,
                             args.output_file_type, args.bucket_name, OUTPUT_FILENAME)
       IN \/ /\ load_query' = stmt
             /\ Proceed(recs \o <<Info(<<"BigQuery destination client initialized successfully">>),
                                  Info(<<"Executing final load query to BigQuery destination table">>),
                                  Debug(<<"Load query: ">> \o stmt)>>,
                        "submit_load")
          \/ /\ Raise("load", "DefaultCredentialsError", ExceptHandler(recs, "DefaultCredentialsError"))
             /\ UNCHANGED load_query
    /\ UNCHANGED <<argv, clock, args, OUTPUT_FILENAME, QUERY, df, csv_data,
                   stderr, queryCalls, uploadCalls, loadCalls, resultCalls,
                   bucketObjects, destTable>>

\* line 146
SubmitLoad ==
    /\ pc = "submit_load"
    /\ loadCalls' = Append(loadCalls, load_query)
    /\ \/ Proceed(<<>>, "wait_load")
       \/ Raise("load", "SubmitError", LoadExceptHandler(<<>>, "SubmitError"))
    /\ UNCHANGED <<argv, clock, args, OUTPUT_FILENAME, QUERY, df, csv_data, load_query,
                   stderr, queryCalls, uploadCalls, resultCalls,
                   bucketObjects, destTable>>

\* lines 149-152: result() returns when the job is done, raises when the job
\* failed (the table is untouched) or when polling it failed (the job may
\* still have overwritten the table)
WaitLoad ==
    /\ pc = "wait_load"
    /\ resultCalls' = resultCalls + 1
    /\ \/ /\ destTable' = loadCalls[Len(loadCalls)]
          /\ Proceed(<<Info(<<"Final load query executed successfully!">>),
                       Info(<<"Data successfully loaded into table: ">>
                            \o args.destination_project_id \o <<".">> \o args.dataset_name
                            \o <<".">> \o args.output_file_type)>>,
                     "finish")
       \/ /\ UNCHANGED destTable
          /\ Raise("load", "JobFailed", LoadExceptHandler(<<>>, "JobFailed"))
       \/ /\ destTable' \in {destTable, loadCalls[Len(loadCalls)]}
          /\ Raise("load", "PollError", LoadExceptHandler(<<>>, "PollError"))
    /\ UNCHANGED <<argv, clock, args, OUTPUT_FILENAME, QUERY, df, csv_data, load_query,
                   stderr, queryCalls, uploadCalls, loadCalls, bucketObjects>>

\* line 159, and main() returns
Finish ==
    /\ pc = "finish"
    /\ log' = Emit(<<Info(<<"BigQuery to GCS export script completed successfully!">>)>>)
    /\ exitCode' = 0
    /\ pc' = "exited"
    /\ UNCHANGED <<argv, clock, args, OUTPUT_FILENAME, QUERY, df, csv_data, load_query,
                   stderr, queryCalls, uploadCalls, loadCalls, resultCalls, raised,
                   bucketObjects, destTable>>

\* time passes while the process runs
Tick ==
    /\ pc # "exited"
    /\ clock < MaxClock
    /\ clock' = clock + 1
    /\ UNCHANGED <<argv, pc, args, OUTPUT_FILENAME, QUERY, df, csv_data, load_query,
                   log, stderr, queryCalls, uploadCalls, loadCalls, resultCalls, raised,
                   bucketObjects, destTable, exitCode>>

Next ==
    \/ Start
    \/ ParseArguments
    \/ Configure
    \/ InitBigQueryClient
    \/ ExecuteQuery
    \/ ConvertToCsv
    \/ InitStorageClient
    \/ Upload
    \/ PrepareLoad
    \/ SubmitLoad
    \/ WaitLoad
    \/ Finish
    \/ Tick

Spec == Init /\ [][Next]_vars

\* ------------------------------------------------------- derived notions
\* the run state of section 4.4, read off the position of main()
RunState ==
    CASE pc \in {"start", "parse", "configure"} -> "START"
      [] pc \in {"bq_client", "query"} -> "CONFIGURED"
      [] pc \in {"to_csv", "storage_client", "upload"} -> "QUERIED"
      [] pc \in {"prepare_load", "submit_load", "wait_load"} -> "UPLOADED"
      [] pc = "finish" -> "LOADED"
      [] pc = "exited" /\ exitCode = 0 -> "DONE"
      [] pc = "exited" /\ exitCode # 0 -> "FAILED"

StateOrder == <<"START", "CONFIGURED", "QUERIED", "UPLOADED", "LOADED", "DONE">>
Rank(st) == CHOOSE i \in 1..Len(StateOrder) : StateOrder[i] = st

AnyRequiredMissing == \E f \in RequiredFlags : f \notin DOMAIN argv
Logged(first) == \E i \in 1..Len(log) : log[i].msg[1] = first
StageRaised(stage) == \E i \in 1..Len(raised) : raised[i].stage = stage
LoadJobRaised == \E i \in 1..Len(raised) : raised[i].exc \in {"SubmitError", "JobFailed", "PollError"}
IsInfix(sub, s) == \E i \in 0..(Len(s) - Len(sub)) : SubSeq(s, i + 1, i + Len(sub)) = sub

\* ------------------------------------------------------------------ C1
\* C1: a run that has exited has status 0 when configuration, query, upload
\* and load all succeeded, and status exactly 1 when any of them failed.
C1_ExitStatus ==
    pc = "exited" =>
        IF ~AnyRequiredMissing /\ raised = <<>> THEN exitCode = 0 ELSE exitCode = 1

\* ------------------------------------------------------------------ C2
\* C2: when a required flag is missing the run makes no query, upload or
\* load call, and it ends with a non-zero status.
C2_NoCallsOnMissingConfig ==
    AnyRequiredMissing =>
        /\ queryCalls = <<>> /\ uploadCalls = <<>> /\ loadCalls = <<>> /\ resultCalls = 0
        /\ pc \in {"start", "parse", "exited"}
        /\ pc = "exited" => exitCode # 0

C2_Witness ==
    AnyRequiredMissing /\ pc = "exited" /\ exitCode # 0 /\ stderr # <<>>

\* ------------------------------------------------------------------ C3
\* C3: every step keeps the run state or moves it to the next state of
\* START, CONFIGURED, QUERIED, UPLOADED, LOADED, DONE, or from a state other
\* than DONE to FAILED; nothing leaves DONE or FAILED; and a query is issued
\* only once configured, an upload only once queried, a load only once
\* uploaded, DONE only once the load job's wait returned.
C3_Edge(from, to) ==
    \/ to = from
    \/ from \notin {"DONE", "FAILED"} /\ to = "FAILED"
    \/ from \notin {"DONE", "FAILED"} /\ to # "FAILED" /\ Rank(to) = Rank(from) + 1

C4_LoadFailureIsFatal ==
    /\ LoadJobRaised =>
          /\ pc = "exited" /\ exitCode = 1
          /\ \E i \in 1..Len(log) :
                log[i].level = "ERROR" /\ log[i].msg[1] = "CRITICAL: Final load query failed: "
          /\ ~Logged("Final load query executed successfully!")
          /\ ~Logged("Data successfully loaded into table: ")
          /\ ~Logged("BigQuery to GCS export script completed successfully!")
    /\ (\/ Logged("Final load query executed successfully!")
        \/ Logged("Data successfully loaded into table: ")
        \/ Logged("BigQuery to GCS export script completed successfully!"))
          => resultCalls = 1 /\ raised = <<>>

C4_Witness ==
    /\ pc = "exited" /\ resultCalls = 1
    /\ raised = <<[stage |-> "load", exc |-> "JobFailed"]>>

\* ------------------------------------------------------------------ C5
\* C5: the SQL sent to the source is SELECT * FROM `source.dataset.type`
\* when the filter is empty, with no WHERE in it, and is that same text
\* followed by WHERE and the filter as given when the filter is not empty.
C5_NoFilterSql ==
    <<Indent, "SELECT *", Indent, "FROM ", Backquote>>
    \o args.source_project_id \o <<".">> \o args.dataset_name \o <<".">> \o args.output_file_type
    \o <<Backquote, Indent>>

C5_SqlForm ==
    \A i \in 1..Len(queryCalls) :
        IF args.query_filter = <<>>
        THEN /\ queryCalls[i] = C5_NoFilterSql
             /\ \A k \in 1..Len(queryCalls[i]) : queryCalls[i][k] # "WHERE "
        ELSE queryCalls[i] = C5_NoFilterSql \o <<"WHERE ">> \o args.query_filter \o <<Indent>>

C5_Witness ==
    Len(queryCalls) = 1 /\ Len(args.query_filter) > 1

\* ------------------------------------------------------------------ C6
\* C6: once computed, before any query, the object path is
\* dataset/type/type_<time of one clock reading>.csv and never changes, and
\* the key of the upload and the key in the load statement's gs:// URI are
\* that path, whatever time has passed since.
C6_PathOf(t) ==
    args.dataset_name \o <<"/">> \o args.output_file_type \o <<"/">> \o args.output_file_type
    \o <<"_", "20240101_00000", ToString(t), ".csv">>

C6_ObjectPathStable ==
    /\ [](RunState # "START" /\ RunState # "FAILED" => \E t \in 0..clock : OUTPUT_FILENAME = C6_PathOf(t))
    /\ [](OUTPUT_FILENAME = <<>> => queryCalls = <<>>)
    /\ [][OUTPUT_FILENAME # <<>> => OUTPUT_FILENAME' = OUTPUT_FILENAME]_vars
    /\ [](\A i \in 1..Len(uploadCalls) : uploadCalls[i].key = OUTPUT_FILENAME)
    /\ [](\A i \in 1..Len(loadCalls) :
            /\ Len(uploadCalls) = 1
            /\ IsInfix(<<"uris = ['", "gs://">> \o uploadCalls[1].bucket \o <<"/">>
                       \o uploadCalls[1].key \o <<"']">>, loadCalls[i]))

C6_Witness ==
    /\ Len(loadCalls) = 1
    /\ clock > 0
    /\ OUTPUT_FILENAME = C6_PathOf(0)

\* ------------------------------------------------------------------ C7
\* C7: a query that returned zero rows is logged as a warning, the run then
\* fails only if a later stage raises, and a run that exits with nothing
\* raised has uploaded the header-only CSV, submitted the load and exited 0.
C7_ZeroRowsProceeds ==
    df = 0 =>
        /\ \E i \in 1..Len(log) :
              log[i].level = "WARNING" /\ log[i].msg[1] = "Query returned 0 rows - proceeding with empty dataset"
        /\ \A i \in 1..Len(raised) : raised[i].stage \in {"upload", "load"}
        /\ pc = "exited" /\ exitCode # 0 => raised # <<>>
        /\ pc = "exited" /\ raised = <<>> =>
              /\ exitCode = 0
              /\ Len(uploadCalls) = 1 /\ uploadCalls[1].data = <<"header">>
              /\ Len(loadCalls) = 1 /\ resultCalls = 1

C7_Witness ==
    df = 0 /\ pc = "exited" /\ exitCode = 0 /\ Len(loadCalls) = 1

\* ------------------------------------------------------------------ C8
\* C8: a query, upload or load call is made only with a configuration whose
\* required fields are all present and non-empty.
C8_RequiredNonEmpty ==
    queryCalls # <<>> \/ uploadCalls # <<>> \/ loadCalls # <<>> =>
        \A f \in RequiredFlags : args[f] # <<>> /\ args[f] # None

\* ------------------------------------------------------------------ C9
\* C9: the query, the upload, the load submission and the load wait are
\* each made at most once; after a query failure nothing is uploaded or
\* loaded; after an upload failure no load is submitted and the destination
\* table is untouched; after a load failure the uploaded object is still in
\* the bucket and was uploaded once; and no object ever leaves the bucket.
C9_NoRetryNoCompensation ==
    /\ [](/\ Len(queryCalls) <= 1 /\ Len(uploadCalls) <= 1
          /\ Len(loadCalls) <= 1 /\ resultCalls <= 1)
    /\ [](StageRaised("query") => uploadCalls = <<>> /\ loadCalls = <<>> /\ bucketObjects = {})
    /\ [](StageRaised("upload") => loadCalls = <<>> /\ resultCalls = 0 /\ destTable = Original)
    /\ [](StageRaised("load") => Len(uploadCalls) = 1 /\ bucketObjects = {OUTPUT_FILENAME})
    /\ [][bucketObjects \subseteq bucketObjects']_vars
    /\ [][pc = "exited" => UNCHANGED vars]_vars

C9_Witness ==
    /\ pc = "exited" /\ LoadJobRaised
    /\ Len(loadCalls) = 1 /\ bucketObjects = {OUTPUT_FILENAME}

\* ----------------------------------------------------------------- C10
\* C10: a run that has exited with a non-zero status has logged an
\* error-level record carrying the exception trace.
C10_ErrorsLoggedWithTrace ==
    pc = "exited" /\ exitCode # 0 =>
        \E i \in 1..Len(log) : log[i].level = "ERROR" /\ log[i].exc_info
====
